---- MODULE Spec2Model ----
(***************************************************************************)
(* robinhood-mcp: the authentication wrapper (auth.py), the accessor       *)
(* layer (tools.py) and the tool-calling server (server.py).               *)
(*                                                                         *)
(* Python strings that the code inspects (symbols, queries, exception      *)
(* texts) are sequences of one-character strings.  Strings that the code   *)
(* only passes along (watchlist names, credentials, intervals, spans) are  *)
(* TLA+ strings.  The external brokerage client (robin_stocks, pyotp) is   *)
(* the environment: every call to it has a nondeterministic outcome.       *)
(***************************************************************************)
EXTENDS Integers, Sequences, FiniteSets, TLC

VARIABLES
    login_attempted,  \* server.py _login_attempted
    login_error,      \* server.py _login_error (str | None)
    environ,          \* os.environ after load_dotenv
    loginCalls,       \* number of calls of auth.login() made by the server
    authLog,          \* the last call of an auth.py function
    last,             \* the last tool invocation / accessor call
    prev,             \* the accessor call before the last one
    expired,          \* some tool invocation has reported "Session expired"
    req               \* the call about to be made to auth.py or tools.py

vars ==
    <<login_attempted, login_error, environ, loginCalls, authLog, last, prev,
      expired, req>>

----------------------------------------------------------------------------
(* Bounds *)

MaxLen == 3      \* longest symbol / query string
MaxList == 2     \* longest list returned by the external client
MaxSymLen == 1   \* longest symbol / query string sent to the server

----------------------------------------------------------------------------
(* Python strings as character sequences *)

SymChars == {"a", "A", " "}

\* str.upper() on one character
UpperChar(c) ==
    CASE c = "a" -> "A"
      [] c = "b" -> "B"
      [] c = "m" -> "M"
      [] c = "f" -> "F"
      [] c = "x" -> "X"
      [] OTHER -> c

\* str.lower() on one character
LowerChar(c) ==
    CASE c = "A" -> "a"
      [] c = "B" -> "b"
      [] c = "M" -> "m"
      [] c = "F" -> "f"
      [] c = "X" -> "x"
      [] c = "L" -> "l"
      [] OTHER -> c

IsSpace(c) == c = " "

Upper(s) == [i \in 1..Len(s) |-> UpperChar(s[i])]

Lower(s) == [i \in 1..Len(s) |-> LowerChar(s[i])]

RECURSIVE LStrip(_)
LStrip(s) ==
    IF s = <<>> THEN <<>>
    ELSE IF IsSpace(Head(s)) THEN LStrip(Tail(s)) ELSE s

RECURSIVE RStrip(_)
RStrip(s) ==
    IF s = <<>> THEN <<>>
    ELSE IF IsSpace(s[Len(s)]) THEN RStrip(SubSeq(s, 1, Len(s) - 1)) ELSE s

\* str.strip()
Strip(s) == RStrip(LStrip(s))

\* `sub in s` for Python strings
Contains(s, sub) ==
    \E i \in 0..(Len(s) - Len(sub)) : SubSeq(s, i + 1, i + Len(sub)) = sub

\* all strings over an alphabet up to a length
StringsUpTo(chars, n) == UNION {[1..k -> chars] : k \in 0..n}

----------------------------------------------------------------------------
(* Python values handed to the accessors *)

StrVal(s) == [t |-> "str", s |-> s, n |-> 0]
IntVal(n) == [t |-> "int", s |-> <<>>, n |-> n]
NoneArg == [t |-> "none", s |-> <<>>, n |-> 0]

\* truthiness: `not v` is ~Truthy(v)
Truthy(v) ==
    CASE v.t = "str" -> v.s # <<>>
      [] v.t = "int" -> v.n # 0
      [] OTHER -> FALSE

IsStr(v) == v.t = "str"

StrInputs == {StrVal(s) : s \in StringsUpTo(SymChars, MaxLen)}

AnyInputs == StrInputs \cup {IntVal(0), IntVal(123), NoneArg}

----------------------------------------------------------------------------
(* Results of the external client and values returned by the accessors *)

\* the i-th element of a list the client returns
Item(i) == i

\* the lists the client returns: one of each length
Lists == {[i \in 1..k |-> Item(i)] : k \in 0..MaxList}

ExcTextApi == <<"x">>

\* text of the exception the exact lookup of search_symbols raises
ExcTextPrimary == <<"p">>

\* k: "none" (None), "list", "dict", "str" (some other object), "raise"
RNone == [k |-> "none", items |-> <<>>, text |-> <<>>]
RList(l) == [k |-> "list", items |-> l, text |-> <<>>]
RDict(l) == [k |-> "dict", items |-> l, text |-> <<>>]
ROther == [k |-> "str", items |-> <<Item(1)>>, text |-> <<>>]
RRaise(txt) == [k |-> "raise", items |-> <<>>, text |-> txt]
\* one element of a list
RElem(e) == [k |-> "elem", items |-> <<e>>, text |-> <<>>]

\* a bool
RBool(b) == [k |-> IF b THEN "True" ELSE "False", items |-> <<>>, text |-> <<>>]

ExtOutcomes ==
    {RNone, ROther, RDict(<<>>), RDict(<<Item(1)>>), RRaise(ExcTextApi)}
        \cup {RList(l) : l \in Lists}

\* outcomes of rh.stocks.get_instruments_by_symbols
PrimaryOutcomes ==
    (ExtOutcomes \ {RRaise(ExcTextApi)}) \cup {RRaise(ExcTextPrimary)}

IsList(r) == r.k = "list"
IsDict(r) == r.k = "dict"

\* truthiness of a returned object
TruthyRes(r) ==
    CASE r.k = "none" -> FALSE
      [] r.k \in {"list", "dict"} -> r.items # <<>>
      [] OTHER -> TRUE

----------------------------------------------------------------------------
(* Exceptions: kind plus message; the message is the literal parts of the  *)
(* f-string followed by the interpolated text                              *)

NoErr == [kind |-> "none", pre |-> <<>>, arg |-> <<>>]
Err(kind, pre, arg) == [kind |-> kind, pre |-> pre, arg |-> arg]
RobinhoodError(lit, arg) == Err("RobinhoodError", <<lit>>, arg)
AuthenticationError(lit, arg) == Err("AuthenticationError", <<lit>>, arg)

\* outcome of a function: returned value or raised exception, and the
\* calls it made to the external client
NoCall == <<>>
ExtCall(fn, arg, kw) == [fn |-> fn, arg |-> arg, kw |-> kw]
Returns(v, ext) == [ret |-> TRUE, val |-> v, err |-> NoErr, ext |-> ext]
Raises(e, ext) == [ret |-> FALSE, val |-> RNone, err |-> e, ext |-> ext]
----------------------------------------------------------------------------
(* tools.py *)

\* faulty _safe_call: a None result is handed on instead of raised
safe_call_NoneThrough(o) ==
    CASE o.k = "raise" ->
            [ok |-> FALSE, val |-> RNone,
             err |-> RobinhoodError("API call failed: ", o.text)]
      [] OTHER -> [ok |-> TRUE, val |-> o, err |-> NoErr]

\* _safe_call: the result of func(*args), or RobinhoodError
_safe_call(o) ==
    CASE o.k = "raise" ->
            [ok |-> FALSE, val |-> RNone,
             err |-> RobinhoodError("API call failed: ", o.text)]
      [] o.k = "none" ->
            [ok |-> FALSE, val |-> RNone,
             err |-> RobinhoodError(
                 "API returned None - you may need to login first", <<>>)]
      [] OTHER -> [ok |-> TRUE, val |-> o, err |-> NoErr]

\* `if not symbol or not isinstance(symbol, str)` is ~ValidString(symbol)
ValidString(v) == Truthy(v) /\ IsStr(v)

\* faulty normalisation: only leading whitespace is removed
NormalizeSymbol_LeftOnly(s) == LStrip(Upper(s))

\* symbol.upper().strip()
NormalizeSymbol(s) == Strip(Upper(s))

SymbolError == RobinhoodError("Symbol must be a non-empty string", <<>>)

\* faulty list rule: whatever the client returned is handed on
ListOrEmpty_PassThrough(r) == r

\* `return result if isinstance(result, list) else []`
ListOrEmpty(r) == IF IsList(r) THEN r ELSE RList(<<>>)

\* faulty unwrapping: the last element instead of the first
FirstOrRaise_Last(r, lit, sym, call) ==
    IF IsList(r) /\ Len(r.items) > 0
    THEN Returns(RElem(r.items[Len(r.items)]), call)
    ELSE Raises(RobinhoodError(lit, sym), call)

\* `if isinstance(result, list) and len(result) > 0: return result[0]`
FirstOrRaise(r, lit, sym, call) ==
    IF IsList(r) /\ Len(r.items) > 0
    THEN Returns(RElem(r.items[1]), call)
    ELSE Raises(RobinhoodError(lit, sym), call)

get_portfolio(o) ==
    LET call == <<ExtCall("rh.profiles.load_portfolio_profile", <<>>, <<>>)>>
        r == _safe_call(o)
    IN  IF r.ok THEN Returns(r.val, call) ELSE Raises(r.err, call)

get_positions(o) ==
    LET call == <<ExtCall("rh.account.build_holdings", <<>>, <<>>)>>
        r == _safe_call(o)
    IN  IF r.ok THEN Returns(r.val, call) ELSE Raises(r.err, call)

get_watchlist(name, o) ==
    LET call == <<ExtCall("rh.account.get_watchlist_by_name", <<>>, <<name>>)>>
        r == _safe_call(o)
    IN  IF r.ok THEN Returns(ListOrEmpty(r.val), call) ELSE Raises(r.err, call)

get_quote(symbol, o) ==
    IF ~ValidString(symbol) THEN Raises(SymbolError, NoCall)
    ELSE LET sym == NormalizeSymbol(symbol.s)
             call == <<ExtCall("rh.stocks.get_quotes", sym, <<>>)>>
             r == _safe_call(o)
         IN  IF ~r.ok THEN Raises(r.err, call)
             ELSE FirstOrRaise(r.val, "No quote found for symbol: ", sym, call)

get_fundamentals(symbol, o) ==
    IF ~ValidString(symbol) THEN Raises(SymbolError, NoCall)
    ELSE LET sym == NormalizeSymbol(symbol.s)
             call == <<ExtCall("rh.stocks.get_fundamentals", sym, <<>>)>>
             r == _safe_call(o)
         IN  IF ~r.ok THEN Raises(r.err, call)
             ELSE FirstOrRaise(r.val, "No fundamentals found for symbol: ",
                               sym, call)

valid_intervals == {"5minute", "10minute", "hour", "day", "week"}
valid_spans == {"day", "week", "month", "3month", "year", "5year"}

\* faulty get_historicals: the span is validated before the interval
get_historicals_SpanFirst(symbol, interval, span, o) ==
    IF ~ValidString(symbol) THEN Raises(SymbolError, NoCall)
    ELSE LET sym == NormalizeSymbol(symbol.s)
             call == <<ExtCall("rh.stocks.get_stock_historicals", sym,
                               <<interval, span>>)>>
             r == _safe_call(o)
         IN  IF span \notin valid_spans
             THEN Raises(RobinhoodError("Invalid span. Must be one of: ",
                                        <<>>), NoCall)
             ELSE IF interval \notin valid_intervals
             THEN Raises(RobinhoodError("Invalid interval. Must be one of: ",
                                        <<>>), NoCall)
             ELSE IF ~r.ok THEN Raises(r.err, call)
             ELSE Returns(ListOrEmpty(r.val), call)

get_historicals(symbol, interval, span, o) ==
    IF ~ValidString(symbol) THEN Raises(SymbolError, NoCall)
    ELSE LET sym == NormalizeSymbol(symbol.s)
             call == <<ExtCall("rh.stocks.get_stock_historicals", sym,
                               <<interval, span>>)>>
             r == _safe_call(o)
         IN  IF interval \notin valid_intervals
             THEN Raises(RobinhoodError("Invalid interval. Must be one of: ",
                                        <<>>), NoCall)
             ELSE IF span \notin valid_spans
             THEN Raises(RobinhoodError("Invalid span. Must be one of: ",
                                        <<>>), NoCall)
             ELSE IF ~r.ok THEN Raises(r.err, call)
             ELSE Returns(ListOrEmpty(r.val), call)

get_news(symbol, o) ==
    IF ~ValidString(symbol) THEN Raises(SymbolError, NoCall)
    ELSE LET sym == NormalizeSymbol(symbol.s)
             call == <<ExtCall("rh.stocks.get_news", sym, <<>>)>>
             r == _safe_call(o)
         IN  IF ~r.ok THEN Raises(r.err, call)
             ELSE Returns(ListOrEmpty(r.val), call)

get_earnings(symbol, o) ==
    IF ~ValidString(symbol) THEN Raises(SymbolError, NoCall)
    ELSE LET sym == NormalizeSymbol(symbol.s)
             call == <<ExtCall("rh.stocks.get_earnings", sym, <<>>)>>
             r == _safe_call(o)
         IN  IF ~r.ok THEN Raises(r.err, call)
             ELSE Returns(ListOrEmpty(r.val), call)

get_ratings(symbol, o) ==
    IF ~ValidString(symbol) THEN Raises(SymbolError, NoCall)
    ELSE LET sym == NormalizeSymbol(symbol.s)
             call == <<ExtCall("rh.stocks.get_ratings", sym, <<>>)>>
             r == _safe_call(o)
         IN  IF ~r.ok THEN Raises(r.err, call)
             ELSE IF IsDict(r.val) THEN Returns(r.val, call)
             ELSE Raises(RobinhoodError("No ratings found for symbol: ", sym),
                         call)

get_dividends(o) ==
    LET call == <<ExtCall("rh.account.get_dividends", <<>>, <<>>)>>
        r == _safe_call(o)
    IN  IF r.ok THEN Returns(ListOrEmpty(r.val), call) ELSE Raises(r.err, call)

get_options_positions(o) ==
    LET call == <<ExtCall("rh.options.get_open_option_positions", <<>>, <<>>)>>
        r == _safe_call(o)
    IN  IF r.ok THEN Returns(ListOrEmpty(r.val), call) ELSE Raises(r.err, call)

\* faulty search_symbols: an empty list from the exact lookup is returned
search_symbols_AnyList(query, o, o2) ==
    IF ~ValidString(query)
    THEN Raises(RobinhoodError("Query must be a non-empty string", <<>>),
                NoCall)
    ELSE LET q == Strip(query.s)
             primary == ExtCall("rh.stocks.get_instruments_by_symbols",
                                Upper(q), <<>>)
             fallback == ExtCall("rh.stocks.find_instrument_data", q, <<>>)
         IN  IF o.k # "raise" /\ IsList(o)
             THEN Returns(o, <<primary>>)
             ELSE IF o2.k = "raise"
             THEN Raises(RobinhoodError("Search failed: ", o2.text),
                         <<primary, fallback>>)
             ELSE Returns(ListOrEmpty(o2), <<primary, fallback>>)

\* o is the outcome of the exact lookup, o2 of the fuzzy search
search_symbols(query, o, o2) ==
    IF ~ValidString(query)
    THEN Raises(RobinhoodError("Query must be a non-empty string", <<>>),
                NoCall)
    ELSE LET q == Strip(query.s)
             primary == ExtCall("rh.stocks.get_instruments_by_symbols",
                                Upper(q), <<>>)
             fallback == ExtCall("rh.stocks.find_instrument_data", q, <<>>)
         IN  IF o.k # "raise" /\ TruthyRes(o) /\ IsList(o)
             THEN Returns(o, <<primary>>)
             ELSE IF o2.k = "raise"
             THEN Raises(RobinhoodError("Search failed: ", o2.text),
                         <<primary, fallback>>)
             ELSE Returns(ListOrEmpty(o2), <<primary, fallback>>)

----------------------------------------------------------------------------
(* auth.py *)

\* None for a `str | None` that the code only passes along
PyNone == "<None>"

\* truthiness of a `str | None`
TruthyStr(v) == v # PyNone /\ v # ""

\* `a or b`
Or(a, b) == IF TruthyStr(a) THEN a ELSE b

Usernames == {PyNone, "", "test@example.com"}
Passwords == {PyNone, "", "secret"}
Secrets == {PyNone, "", "JBSWY3DPEHPK3PXP", "not base32!"}

Environs ==
    [ROBINHOOD_USERNAME : Usernames, ROBINHOOD_PASSWORD : Passwords,
     ROBINHOOD_TOTP_SECRET : Secrets]

\* whether pyotp can decode the secret
Base32Valid(secret) == secret = "JBSWY3DPEHPK3PXP"

\* the codes pyotp.TOTP(secret).now() may give, depending on the time
TotpCodes == {<<"1", "2", "3", "4", "5", "6">>, <<"0", "0", "0", "0", "4", "2">>}

\* text of the exception pyotp raises on a malformed secret
TotpExcText == <<"x">>

\* a `str | None` whose characters matter
NoneStr == [none |-> TRUE, s |-> <<>>]
SomeStr(s) == [none |-> FALSE, s |-> s]

\* get_totp_code: code is what totp.now() gives at the time of the call
get_totp_code(secret, code) ==
    IF ~TruthyStr(secret) THEN Returns(NoneStr, NoCall)
    ELSE IF Base32Valid(secret) THEN Returns(SomeStr(code), NoCall)
    ELSE Raises(AuthenticationError("Failed to generate TOTP code: ",
                                    TotpExcText), NoCall)

\* "Login returned empty result"
EmptyResultText ==
    <<"L", "o", "g", "i", "n", " ", "r", "e", "t", "u", "r", "n", "e", "d",
      " ", "e", "m", "p", "t", "y", " ", "r", "e", "s", "u", "l", "t">>

\* texts of the exceptions rh.login may raise
LoginExcTexts ==
    { <<"m", "f", "a">>, <<"M", "F", "A">>, <<"x", "M", "f", "a", "x">>,
      <<"2", "f", "a">>, <<"2", "F", "A">>, <<"x", "2", "F", "a">>,
      <<"m", " ", "f", "a">>, <<"f", "a", "2">>, <<"x">>, <<>> }

\* outcomes of rh.login: None, {}, a token dict, or an exception
LoginOutcomes ==
    {RNone, RDict(<<>>), RDict(<<Item(1)>>)}
        \cup {RRaise(t) : t \in LoginExcTexts}

LoginCall(username, password, mfa_code) ==
    [fn |-> "rh.login", username |-> username, password |-> password,
     mfa_code |-> mfa_code, store_session |-> TRUE]

\* faulty except clause: the text is searched without lower()
LoginExcept_CaseSensitive(text, ext) ==
    IF Contains(text, <<"m", "f", "a">>) \/ Contains(text, <<"2", "f", "a">>)
    THEN Raises(AuthenticationError(
             "2FA required but ROBINHOOD_TOTP_SECRET not provided or invalid",
             <<>>), ext)
    ELSE Raises(AuthenticationError("Login failed: ", text), ext)

\* the `except Exception as e` clause of login
LoginExcept(text, ext) ==
    IF Contains(Lower(text), <<"m", "f", "a">>)
           \/ Contains(Lower(text), <<"2", "f", "a">>)
    THEN Raises(AuthenticationError(
             "2FA required but ROBINHOOD_TOTP_SECRET not provided or invalid",
             <<>>), ext)
    ELSE Raises(AuthenticationError("Login failed: ", text), ext)

\* faulty login: the secret is taken from the argument only
login_ArgSecretOnly(username, password, totp_secret, env, code, o) ==
    LET u == Or(username, env.ROBINHOOD_USERNAME)
        p == Or(password, env.ROBINHOOD_PASSWORD)
        t == totp_secret
        mfa == get_totp_code(t, code)
        ext == <<LoginCall(u, p, mfa.val)>>
    IN  IF ~TruthyStr(u) \/ ~TruthyStr(p)
        THEN Raises(AuthenticationError(
                 "ROBINHOOD_USERNAME and ROBINHOOD_PASSWORD environment variables required",
                 <<>>), NoCall)
        ELSE IF ~mfa.ret THEN Raises(mfa.err, NoCall)
        ELSE IF o.k = "raise" THEN LoginExcept(o.text, ext)
        ELSE IF ~TruthyRes(o) THEN LoginExcept(EmptyResultText, ext)
        ELSE Returns(o, ext)

\* faulty login: the credentials are refused only when both are missing
login_BothMissing(username, password, totp_secret, env, code, o) ==
    LET u == Or(username, env.ROBINHOOD_USERNAME)
        p == Or(password, env.ROBINHOOD_PASSWORD)
        t == Or(totp_secret, env.ROBINHOOD_TOTP_SECRET)
        mfa == get_totp_code(t, code)
        ext == <<LoginCall(u, p, mfa.val)>>
    IN  IF ~TruthyStr(u) /\ ~TruthyStr(p)
        THEN Raises(AuthenticationError(
                 "ROBINHOOD_USERNAME and ROBINHOOD_PASSWORD environment variables required",
                 <<>>), NoCall)
        ELSE IF ~mfa.ret THEN Raises(mfa.err, NoCall)
        ELSE IF o.k = "raise" THEN LoginExcept(o.text, ext)
        ELSE IF ~TruthyRes(o) THEN LoginExcept(EmptyResultText, ext)
        ELSE Returns(o, ext)

\* login: env is os.environ, code what totp.now() gives, o the outcome of
\* rh.login
login(username, password, totp_secret, env, code, o) ==
    LET u == Or(username, env.ROBINHOOD_USERNAME)
        p == Or(password, env.ROBINHOOD_PASSWORD)
        t == Or(totp_secret, env.ROBINHOOD_TOTP_SECRET)
        mfa == get_totp_code(t, code)
        ext == <<LoginCall(u, p, mfa.val)>>
    IN  IF ~TruthyStr(u) \/ ~TruthyStr(p)
        THEN Raises(AuthenticationError(
                 "ROBINHOOD_USERNAME and ROBINHOOD_PASSWORD environment variables required",
                 <<>>), NoCall)
        ELSE IF ~mfa.ret THEN Raises(mfa.err, NoCall)
        ELSE IF o.k = "raise" THEN LoginExcept(o.text, ext)
        ELSE IF ~TruthyRes(o) THEN LoginExcept(EmptyResultText, ext)
        ELSE Returns(o, ext)

\* faulty logout: the exception of rh.logout is not caught
logout_Surface(o) ==
    IF o.k = "raise"
    THEN Raises(Err("Exception", <<>>, o.text),
                <<ExtCall("rh.logout", <<>>, <<>>)>>)
    ELSE Returns(RNone, <<ExtCall("rh.logout", <<>>, <<>>)>>)

\* logout: o is the outcome of rh.logout
logout(o) == Returns(RNone, <<ExtCall("rh.logout", <<>>, <<>>)>>)

\* outcomes of rh.profiles.load_account_profile
ProbeOutcomes == {RNone, RDict(<<Item(1)>>), RRaise(<<"x">>)}

\* faulty is_logged_in: `return bool(result)`
is_logged_in_Truthy(o) == IF o.k = "raise" THEN FALSE ELSE TruthyRes(o)

\* is_logged_in: o is the outcome of rh.profiles.load_account_profile
is_logged_in(o) == IF o.k = "raise" THEN FALSE ELSE o.k # "none"

----------------------------------------------------------------------------
(* server.py *)

\* a `str | None` message: None, or str(e) of an exception
NoneMsg == [none |-> TRUE, pre |-> <<>>, arg |-> <<>>]
StrOf(e) == [none |-> FALSE, pre |-> e.pre, arg |-> e.arg]
TruthyMsg(m) == ~m.none /\ (m.pre # <<>> \/ m.arg # <<>>)

NoLogin == Returns(RNone, NoCall)

SessionExpired ==
    RobinhoodError("Session expired. Please restart the server.", <<>>)

\* faulty _ensure_logged_in: a failed login is attempted again next time
ensure_logged_in_Retry(attempted, error, lr, po) ==
    LET loginCalled == ~attempted
        error1 == IF loginCalled /\ ~lr.ret /\ lr.err.kind = "AuthenticationError"
                  THEN StrOf(lr.err) ELSE error
        probed == ~TruthyMsg(error1)
        err == IF TruthyMsg(error1)
               THEN Err("RobinhoodError", <<"Not logged in: ">> \o error1.pre,
                        error1.arg)
               ELSE IF ~is_logged_in(po)
               THEN RobinhoodError("Session expired. Please restart the server.",
                                   <<>>)
               ELSE NoErr
    IN  [attempted |-> ~TruthyMsg(error1), error |-> NoneMsg,
         loginCalled |-> loginCalled,
         lr |-> IF loginCalled THEN lr ELSE NoLogin,
         probed |-> probed, probe |-> IF probed THEN po ELSE RNone,
         ok |-> err = NoErr, err |-> err]

\* faulty _ensure_logged_in: the probe's answer is ignored
ensure_logged_in_NoProbe(attempted, error, lr, po) ==
    LET loginCalled == ~attempted
        error1 == IF loginCalled /\ ~lr.ret /\ lr.err.kind = "AuthenticationError"
                  THEN StrOf(lr.err) ELSE error
        probed == ~TruthyMsg(error1)
        err == IF TruthyMsg(error1)
               THEN Err("RobinhoodError", <<"Not logged in: ">> \o error1.pre,
                        error1.arg)
               ELSE NoErr
    IN  [attempted |-> TRUE, error |-> error1, loginCalled |-> loginCalled,
         lr |-> IF loginCalled THEN lr ELSE NoLogin,
         probed |-> probed, probe |-> IF probed THEN po ELSE RNone,
         ok |-> err = NoErr, err |-> err]

\* faulty _ensure_logged_in: the login error is reported but not kept
ensure_logged_in_ForgetError(attempted, error, lr, po) ==
    LET loginCalled == ~attempted
        error1 == IF loginCalled /\ ~lr.ret /\ lr.err.kind = "AuthenticationError"
                  THEN StrOf(lr.err) ELSE error
        probed == ~TruthyMsg(error1)
        err == IF TruthyMsg(error1)
               THEN Err("RobinhoodError", <<"Not logged in: ">> \o error1.pre,
                        error1.arg)
               ELSE IF ~is_logged_in(po)
               THEN RobinhoodError("Session expired. Please restart the server.",
                                   <<>>)
               ELSE NoErr
    IN  [attempted |-> TRUE, error |-> NoneMsg, loginCalled |-> loginCalled,
         lr |-> IF loginCalled THEN lr ELSE NoLogin,
         probed |-> probed, probe |-> IF probed THEN po ELSE RNone,
         ok |-> err = NoErr, err |-> err]

\* faulty _ensure_logged_in: an expired session is cached like a login error
ensure_logged_in_Latch(attempted, error, lr, po) ==
    LET loginCalled == ~attempted
        error1 == IF loginCalled /\ ~lr.ret /\ lr.err.kind = "AuthenticationError"
                  THEN StrOf(lr.err) ELSE error
        probed == ~TruthyMsg(error1)
        err == IF TruthyMsg(error1)
               THEN Err("RobinhoodError", <<"Not logged in: ">> \o error1.pre,
                        error1.arg)
               ELSE IF ~is_logged_in(po)
               THEN RobinhoodError("Session expired. Please restart the server.",
                                   <<>>)
               ELSE NoErr
    IN  [attempted |-> TRUE,
         error |-> IF err = SessionExpired THEN StrOf(err) ELSE error1,
         loginCalled |-> loginCalled,
         lr |-> IF loginCalled THEN lr ELSE NoLogin,
         probed |-> probed, probe |-> IF probed THEN po ELSE RNone,
         ok |-> err = NoErr, err |-> err]

\* _ensure_logged_in: lr is the outcome of login() if it is called, po the
\* outcome of the probe if it is issued
_ensure_logged_in(attempted, error, lr, po) ==
    LET loginCalled == ~attempted
        error1 == IF loginCalled /\ ~lr.ret /\ lr.err.kind = "AuthenticationError"
                  THEN StrOf(lr.err) ELSE error
        probed == ~TruthyMsg(error1)
        err == IF TruthyMsg(error1)
               THEN Err("RobinhoodError", <<"Not logged in: ">> \o error1.pre,
                        error1.arg)
               ELSE IF ~is_logged_in(po)
               THEN RobinhoodError("Session expired. Please restart the server.",
                                   <<>>)
               ELSE NoErr
    IN  [attempted |-> TRUE, error |-> error1, loginCalled |-> loginCalled,
         lr |-> IF loginCalled THEN lr ELSE NoLogin,
         probed |-> probed, probe |-> IF probed THEN po ELSE RNone,
         ok |-> err = NoErr, err |-> err]

----------------------------------------------------------------------------
(* State *)

NoAuth == [fn |-> "none", username |-> PyNone, password |-> PyNone,
           totp_secret |-> PyNone, o |-> RNone, res |-> NoLogin]

AuthRec(fn, username, password, totp_secret, o, res) ==
    [fn |-> fn, username |-> username, password |-> password,
     totp_secret |-> totp_secret, o |-> o, res |-> res]

\* one invocation: its arguments, what the session check did, the outcomes
\* o1, o2 of the external calls that were made, and the result
Invocation(tool, sym, interval, span, name, sess, o, o2, res) ==
    [tool |-> tool, sym |-> sym, interval |-> interval, span |-> span,
     name |-> name, loginCalled |-> sess.loginCalled, probed |-> sess.probed,
     probe |-> sess.probe,
     o1 |-> IF Len(res.ext) >= 1 THEN o ELSE RNone,
     o2 |-> IF Len(res.ext) >= 2 THEN o2 ELSE RNone,
     res |-> res]

\* no session check: the accessor is called directly
NoSession == [loginCalled |-> FALSE, probed |-> FALSE, probe |-> RNone]

NoInvocation ==
    Invocation("none", NoneArg, "", "", "", NoSession, RNone, RNone,
               Returns(RNone, NoCall))

NoReq == [fn |-> "none"]

ServerChars == {"a", " "}
ServerInputs == {StrVal(s) : s \in StringsUpTo(ServerChars, MaxSymLen)}
ServerOutcomes == {RNone, RList(<<Item(1), Item(2)>>), RRaise(ExcTextApi)}
ServerIntervals == {"day", "invalid"}
ServerSpans == {"month", "invalid"}
Names == {"Default", "Tech"}

\* the environments the server is started in
ServerEnvirons ==
    [ROBINHOOD_USERNAME : {PyNone, "test@example.com"},
     ROBINHOOD_PASSWORD : {"secret"},
     ROBINHOOD_TOTP_SECRET : {PyNone, "JBSWY3DPEHPK3PXP", "not base32!"}]

Init ==
    /\ login_attempted = FALSE
    /\ login_error = NoneMsg
    /\ environ \in ServerEnvirons
    /\ loginCalls = 0
    /\ authLog = NoAuth
    /\ last = NoInvocation
    /\ prev = NoInvocation
    /\ expired = FALSE
    /\ req = NoReq

\* what login() called by the server with no arguments may do
LoginResults ==
    {login(PyNone, PyNone, PyNone, environ, code, lo) :
        code \in TotpCodes, lo \in LoginOutcomes}

\* what _ensure_logged_in may do in the current state
SessionResults ==
    {_ensure_logged_in(login_attempted, login_error, lr, po) :
        lr \in IF login_attempted THEN {NoLogin} ELSE LoginResults,
        po \in ProbeOutcomes}

\* a tool: _ensure_logged_in(), then the accessor res unless it raised
Handle(tool, sym, interval, span, name, e, o, o2, res) ==
    /\ login_attempted' = e.attempted
    /\ login_error' = e.error
    /\ loginCalls' = loginCalls + (IF e.loginCalled THEN 1 ELSE 0)
    /\ authLog' = IF e.loginCalled
                  THEN AuthRec("login", PyNone, PyNone, PyNone, RNone, e.lr)
                  ELSE authLog
    /\ last' = Invocation(tool, sym, interval, span, name, e, o, o2,
                          IF e.ok THEN res ELSE Raises(e.err, NoCall))
    /\ expired' = (expired \/ e.err = SessionExpired)
    /\ UNCHANGED <<environ, prev, req>>

robinhood_get_portfolio ==
    \E e \in SessionResults :
        \E o \in IF e.ok THEN ServerOutcomes ELSE {RNone} :
            Handle("robinhood_get_portfolio", NoneArg, "", "", "", e, o, RNone,
                   get_portfolio(o))

robinhood_get_positions ==
    \E e \in SessionResults :
        \E o \in IF e.ok THEN ServerOutcomes ELSE {RNone} :
            Handle("robinhood_get_positions", NoneArg, "", "", "", e, o, RNone,
                   get_positions(o))

robinhood_get_watchlist ==
    \E name \in Names, e \in SessionResults :
        \E o \in IF e.ok THEN ServerOutcomes ELSE {RNone} :
            Handle("robinhood_get_watchlist", NoneArg, "", "", name, e, o,
                   RNone, get_watchlist(name, o))

robinhood_get_quote ==
    \E symbol \in ServerInputs, e \in SessionResults :
        \E o \in IF e.ok THEN ServerOutcomes ELSE {RNone} :
            Handle("robinhood_get_quote", symbol, "", "", "", e, o, RNone,
                   get_quote(symbol, o))

robinhood_get_fundamentals ==
    \E symbol \in ServerInputs, e \in SessionResults :
        \E o \in IF e.ok THEN ServerOutcomes ELSE {RNone} :
            Handle("robinhood_get_fundamentals", symbol, "", "", "", e, o,
                   RNone, get_fundamentals(symbol, o))

robinhood_get_historicals ==
    \E symbol \in ServerInputs, interval \in ServerIntervals,
       span \in ServerSpans, e \in SessionResults :
        \E o \in IF e.ok THEN ServerOutcomes ELSE {RNone} :
            Handle("robinhood_get_historicals", symbol, interval, span, "", e,
                   o, RNone, get_historicals(symbol, interval, span, o))

robinhood_get_news ==
    \E symbol \in ServerInputs, e \in SessionResults :
        \E o \in IF e.ok THEN ServerOutcomes ELSE {RNone} :
            Handle("robinhood_get_news", symbol, "", "", "", e, o, RNone,
                   get_news(symbol, o))

robinhood_get_earnings ==
    \E symbol \in ServerInputs, e \in SessionResults :
        \E o \in IF e.ok THEN ServerOutcomes ELSE {RNone} :
            Handle("robinhood_get_earnings", symbol, "", "", "", e, o, RNone,
                   get_earnings(symbol, o))

robinhood_get_ratings ==
    \E symbol \in ServerInputs, e \in SessionResults :
        \E o \in IF e.ok THEN ServerOutcomes \cup {RDict(<<Item(1)>>)}
                         ELSE {RNone} :
            Handle("robinhood_get_ratings", symbol, "", "", "", e, o, RNone,
                   get_ratings(symbol, o))

robinhood_get_dividends ==
    \E e \in SessionResults :
        \E o \in IF e.ok THEN ServerOutcomes ELSE {RNone} :
            Handle("robinhood_get_dividends", NoneArg, "", "", "", e, o, RNone,
                   get_dividends(o))

robinhood_get_options_positions ==
    \E e \in SessionResults :
        \E o \in IF e.ok THEN ServerOutcomes ELSE {RNone} :
            Handle("robinhood_get_options_positions", NoneArg, "", "", "", e,
                   o, RNone, get_options_positions(o))

robinhood_search_symbols ==
    \E query \in ServerInputs, e \in SessionResults :
        \E o \in IF e.ok THEN ServerOutcomes \cup {RRaise(ExcTextPrimary)}
                         ELSE {RNone} :
            \E o2 \in IF e.ok THEN ServerOutcomes ELSE {RNone} :
                Handle("robinhood_search_symbols", query, "", "", "", e, o, o2,
                       search_symbols(query, o, o2))

Next ==
    \/ robinhood_get_portfolio
    \/ robinhood_get_positions
    \/ robinhood_get_watchlist
    \/ robinhood_get_quote
    \/ robinhood_get_fundamentals
    \/ robinhood_get_historicals
    \/ robinhood_get_news
    \/ robinhood_get_earnings
    \/ robinhood_get_ratings
    \/ robinhood_get_dividends
    \/ robinhood_get_options_positions
    \/ robinhood_search_symbols

Spec == Init /\ [][Next]_vars

----------------------------------------------------------------------------
(* The accessors of tools.py called directly, one call per behaviour: req  *)
(* is the call to make and the outcomes o, o2 the external client will     *)
(* give                                                                    *)

ToolIntervals == {"week", "month", "invalid"}
ToolSpans == {"5year", "hour", "invalid"}

ToolReq(fn, sym, interval, span, name, o, o2) ==
    [fn |-> fn, sym |-> sym, interval |-> interval, span |-> span,
     name |-> name, o |-> o, o2 |-> o2]

NoArgTools ==
    {"get_portfolio", "get_positions", "get_dividends", "get_options_positions"}

SymbolTools ==
    {"get_quote", "get_fundamentals", "get_news", "get_earnings", "get_ratings"}

ToolRequests ==
    {ToolReq(fn, NoneArg, "", "", "", o, RNone) :
        fn \in NoArgTools, o \in ExtOutcomes}
    \cup {ToolReq("get_watchlist", NoneArg, "", "", name, o, RNone) :
        name \in Names, o \in ExtOutcomes}
    \cup {ToolReq(fn, sym, "", "", "", o, RNone) :
        fn \in SymbolTools, sym \in AnyInputs, o \in ExtOutcomes}
    \cup {ToolReq("get_historicals", sym, interval, span, "", o, RNone) :
        sym \in AnyInputs, interval \in ToolIntervals, span \in ToolSpans,
        o \in ExtOutcomes}
    \cup {ToolReq("search_symbols", sym, "", "", "", o, o2) :
        sym \in AnyInputs, o \in PrimaryOutcomes, o2 \in ExtOutcomes}

InitTools ==
    /\ login_attempted = FALSE
    /\ login_error = NoneMsg
    /\ environ = [ROBINHOOD_USERNAME |-> PyNone, ROBINHOOD_PASSWORD |-> PyNone,
                  ROBINHOOD_TOTP_SECRET |-> PyNone]
    /\ loginCalls = 0
    /\ authLog = NoAuth
    /\ last = NoInvocation
    /\ prev = NoInvocation
    /\ expired = FALSE
    /\ req \in ToolRequests

\* the accessor req.fn is called and its result recorded
Call(fn, res) ==
    /\ req.fn = fn
    /\ last.tool = "none"
    /\ last' = Invocation(fn, req.sym, req.interval, req.span, req.name,
                          NoSession, req.o, req.o2, res)
    /\ UNCHANGED <<login_attempted, login_error, environ, loginCalls, authLog,
                   prev, expired, req>>

call_get_portfolio == Call("get_portfolio", get_portfolio(req.o))
call_get_positions == Call("get_positions", get_positions(req.o))
call_get_watchlist == Call("get_watchlist", get_watchlist(req.name, req.o))
call_get_quote == Call("get_quote", get_quote(req.sym, req.o))
call_get_fundamentals ==
    Call("get_fundamentals", get_fundamentals(req.sym, req.o))
call_get_historicals ==
    Call("get_historicals",
         get_historicals(req.sym, req.interval, req.span, req.o))
call_get_news == Call("get_news", get_news(req.sym, req.o))
call_get_earnings == Call("get_earnings", get_earnings(req.sym, req.o))
call_get_ratings == Call("get_ratings", get_ratings(req.sym, req.o))
call_get_dividends == Call("get_dividends", get_dividends(req.o))
call_get_options_positions ==
    Call("get_options_positions", get_options_positions(req.o))
call_search_symbols ==
    Call("search_symbols", search_symbols(req.sym, req.o, req.o2))

NextTools ==
    \/ call_get_portfolio
    \/ call_get_positions
    \/ call_get_watchlist
    \/ call_get_quote
    \/ call_get_fundamentals
    \/ call_get_historicals
    \/ call_get_news
    \/ call_get_earnings
    \/ call_get_ratings
    \/ call_get_dividends
    \/ call_get_options_positions
    \/ call_search_symbols

SpecTools == InitTools /\ [][NextTools]_vars

----------------------------------------------------------------------------
(* The functions of auth.py called directly, one call per behaviour *)

AuthReq(fn, username, password, totp_secret, code, o) ==
    [fn |-> fn, username |-> username, password |-> password,
     totp_secret |-> totp_secret, code |-> code, o |-> o]

NoCode == <<>>

AuthRequests ==
    {AuthReq("login", u, p, t, code, o) :
        u \in Usernames, p \in Passwords, t \in Secrets, code \in TotpCodes,
        o \in LoginOutcomes}
    \cup {AuthReq("get_totp_code", PyNone, PyNone, t, code, RNone) :
        t \in Secrets, code \in TotpCodes}
    \cup {AuthReq("logout", PyNone, PyNone, PyNone, NoCode, o) :
        o \in {RNone, RRaise(<<"x">>)}}
    \cup {AuthReq("is_logged_in", PyNone, PyNone, PyNone, NoCode, o) :
        o \in ProbeOutcomes \cup {RDict(<<>>)}}

InitAuth ==
    /\ login_attempted = FALSE
    /\ login_error = NoneMsg
    /\ environ \in Environs
    /\ loginCalls = 0
    /\ authLog = NoAuth
    /\ last = NoInvocation
    /\ prev = NoInvocation
    /\ expired = FALSE
    /\ req \in AuthRequests

\* the function req.fn is called and its result recorded
CallAuth(fn, res) ==
    /\ req.fn = fn
    /\ authLog.fn = "none"
    /\ authLog' = AuthRec(fn, req.username, req.password, req.totp_secret,
                          req.o, res)
    /\ UNCHANGED <<login_attempted, login_error, environ, loginCalls, last,
                   prev, expired, req>>

call_login ==
    CallAuth("login", login(req.username, req.password, req.totp_secret,
                            environ, req.code, req.o))

call_get_totp_code ==
    CallAuth("get_totp_code", get_totp_code(req.totp_secret, req.code))

call_logout == CallAuth("logout", logout(req.o))

call_is_logged_in ==
    CallAuth("is_logged_in",
             Returns(RBool(is_logged_in(req.o)), NoCall))

NextAuth ==
    \/ call_login
    \/ call_get_totp_code
    \/ call_logout
    \/ call_is_logged_in

SpecAuth == InitAuth /\ [][NextAuth]_vars

----------------------------------------------------------------------------
(* A symbol accessor called twice, with the symbols req.sym and req.sym2 *)

SymbolAccessors == SymbolTools \cup {"get_historicals"}

NormInputs == {StrVal(s) : s \in StringsUpTo(SymChars, MaxLen)}

NormReq(fn, sym, sym2) ==
    [fn |-> fn, sym |-> sym, sym2 |-> sym2, interval |-> "week",
     span |-> "5year", o |-> RList(<<Item(1)>>)]

InitNorm ==
    /\ login_attempted = FALSE
    /\ login_error = NoneMsg
    /\ environ = [ROBINHOOD_USERNAME |-> PyNone, ROBINHOOD_PASSWORD |-> PyNone,
                  ROBINHOOD_TOTP_SECRET |-> PyNone]
    /\ loginCalls = 0
    /\ authLog = NoAuth
    /\ last = NoInvocation
    /\ prev = NoInvocation
    /\ expired = FALSE
    /\ req \in {NormReq(fn, sym, sym2) :
                   fn \in SymbolAccessors, sym \in NormInputs,
                   sym2 \in NormInputs}

\* the symbol of the next call: req.sym, then req.sym2
NextSym == IF last.tool = "none" THEN req.sym ELSE req.sym2

\* the accessor req.fn is called, for the first or the second time
CallTwice(fn, res) ==
    /\ req.fn = fn
    /\ prev.tool = "none"
    /\ prev' = last
    /\ last' = Invocation(fn, NextSym, req.interval, req.span, "",
                          NoSession, req.o, RNone, res)
    /\ UNCHANGED <<login_attempted, login_error, environ, loginCalls, authLog,
                   expired, req>>

twice_get_quote == CallTwice("get_quote", get_quote(NextSym, req.o))
twice_get_fundamentals ==
    CallTwice("get_fundamentals", get_fundamentals(NextSym, req.o))
twice_get_historicals ==
    CallTwice("get_historicals",
              get_historicals(NextSym, req.interval, req.span, req.o))
twice_get_news == CallTwice("get_news", get_news(NextSym, req.o))
twice_get_earnings == CallTwice("get_earnings", get_earnings(NextSym, req.o))
twice_get_ratings == CallTwice("get_ratings", get_ratings(NextSym, req.o))

NextNorm ==
    \/ twice_get_quote
    \/ twice_get_fundamentals
    \/ twice_get_historicals
    \/ twice_get_news
    \/ twice_get_earnings
    \/ twice_get_ratings

SpecNorm == InitNorm /\ [][NextNorm]_vars

----------------------------------------------------------------------------
(* Properties of the server (Spec) *)

\* an invocation has been made
Invoked == last.tool # "none"

\* the invocation reached the external client
MadeExtCall(inv) == Len(inv.res.ext) >= 1

\* C1: over any sequence of tool invocations login() is called at most
\* once: the invocation that finds _login_attempted unset calls it, it sets
\* the flag, and no invocation that finds the flag set calls it, whether
\* the attempt succeeded or failed.
C1_LoginAtMostOnce ==
    [][/\ last'.loginCalled <=> ~login_attempted
       /\ loginCalls' = loginCalls + (IF login_attempted THEN 0 ELSE 1)
       /\ login_attempted'
       /\ loginCalls' <= 1]_vars

\* C1 witness: the login failed, and a later invocation did not call it again
C1_Witness ==
    /\ Invoked
    /\ ~last.loginCalled
    /\ loginCalls = 1
    /\ TruthyMsg(login_error)
    /\ ~authLog.res.ret

\* C2: an invocation reaches the external client only if login has been
\* attempted, no login error is cached and the probe issued in this
\* invocation returned a non-null result; otherwise it raises RobinhoodError
\* and makes no external call.
C2_SessionCheckedFirst ==
    Invoked =>
        LET sessionOk == /\ login_attempted
                         /\ ~TruthyMsg(login_error)
                         /\ last.probed
                         /\ last.probe.k = "dict"
        IN  /\ MadeExtCall(last) => sessionOk
            /\ ~sessionOk =>
                   /\ ~last.res.ret
                   /\ last.res.err.kind = "RobinhoodError"
                   /\ last.res.ext = NoCall

\* C2 witness: an invocation whose probe succeeded called the client
C2_Witness ==
    /\ last.tool = "robinhood_get_quote"
    /\ last.probed
    /\ last.probe.k = "dict"
    /\ MadeExtCall(last)
    /\ last.res.ret

\* the RobinhoodError raised for the cached login error m
NotLoggedIn(m) == Err("RobinhoodError", <<"Not logged in: ">> \o m.pre, m.arg)

\* the tools whose accessor validates nothing before its external call
UnvalidatedTools ==
    {"robinhood_get_portfolio", "robinhood_get_positions",
     "robinhood_get_dividends", "robinhood_get_options_positions"}

\* C15: if the one login attempt fails with an AuthenticationError of
\* message m, that invocation and every later one raises RobinhoodError
\* "Not logged in: m" with the same m, without calling login again, without
\* issuing the probe and without calling any accessor; the cached error is
\* never cleared or replaced.
C15_LoginErrorLatched ==
    [][/\ (last'.loginCalled /\ ~authLog'.res.ret) =>
              /\ authLog'.res.err.kind = "AuthenticationError"
              /\ login_error' = StrOf(authLog'.res.err)
              /\ TruthyMsg(login_error')
       /\ TruthyMsg(login_error) =>
              /\ login_error' = login_error
              /\ ~last'.loginCalled
              /\ authLog' = authLog
       /\ TruthyMsg(login_error') =>
              /\ ~last'.probed
              /\ last'.res = Raises(NotLoggedIn(login_error'), NoCall)]_vars

\* C15 witness: login failed, and a later invocation raised the cached
\* message without calling login or the probe
C15_Witness ==
    /\ last.tool = "robinhood_get_portfolio"
    /\ loginCalls = 1
    /\ ~last.loginCalled
    /\ ~last.probed
    /\ ~authLog.res.ret
    /\ login_error = StrOf(authLog.res.err)
    /\ last.res = Raises(NotLoggedIn(login_error), NoCall)

\* C16: "Session expired" is not latched.  Once login has succeeded, every
\* invocation issues the probe itself; it raises RobinhoodError "Session
\* expired. Please restart the server." without an external call when the
\* probe raises or returns None, and goes on to its accessor when the probe
\* returns a value, even if an earlier invocation reported an expired
\* session.  No invocation after the first calls login, and nothing is
\* cached in _login_error.
C16_ExpiryNotLatched ==
    [][LET loginOk == IF last'.loginCalled THEN authLog'.res.ret
                      ELSE login_attempted /\ ~TruthyMsg(login_error)
           probeOk == last'.probe.k \notin {"none", "raise"}
       IN  loginOk =>
               /\ last'.probed
               /\ last'.loginCalled <=> ~login_attempted
               /\ login_error' = NoneMsg
               /\ expired' = (expired \/ ~probeOk)
               /\ ~probeOk => last'.res = Raises(SessionExpired, NoCall)
               /\ probeOk =>
                      /\ last'.res.err # SessionExpired
                      /\ last'.res.err.pre # <<"Not logged in: ">>
                      /\ last'.tool \in UnvalidatedTools =>
                             MadeExtCall(last')]_vars

\* C16 witness: an earlier invocation reported an expired session, and this
\* one, whose probe returned a value, called the external client
C16_Witness ==
    /\ expired
    /\ loginCalls = 1
    /\ ~last.loginCalled
    /\ last.probed
    /\ last.probe.k = "dict"
    /\ MadeExtCall(last)
    /\ last.res.ret

----------------------------------------------------------------------------
(* Properties of the accessors called directly (SpecTools) *)

ListTools ==
    {"get_watchlist", "get_historicals", "get_news", "get_earnings",
     "get_dividends", "get_options_positions"}

\* the external call raised or returned None
BadOutcome(o) == o.k \in {"raise", "none"}

\* C3: search_symbols with a valid query always attempts the exact lookup
\* first, with the trimmed and uppercased query; it returns the lookup's
\* result without the fuzzy search exactly when that result is a non-empty
\* list; otherwise the fuzzy search is called once and the caller gets its
\* list, or [] for a non-list, or RobinhoodError "Search failed" if it
\* raises.  An exception of the exact lookup is never surfaced.
C3_SearchFallback ==
    (last.tool = "search_symbols" /\ ValidString(last.sym)) =>
        LET ext == last.res.ext
            res == last.res
            primaryHit == req.o.k = "list" /\ req.o.items # <<>>
        IN  /\ Len(ext) >= 1
            /\ ext[1].fn = "rh.stocks.get_instruments_by_symbols"
            /\ ext[1].arg = Upper(Strip(last.sym.s))
            /\ (Len(ext) = 1) <=> primaryHit
            /\ primaryHit => (res.ret /\ res.val = req.o)
            /\ ~primaryHit =>
                   /\ Len(ext) = 2
                   /\ ext[2].fn = "rh.stocks.find_instrument_data"
                   /\ CASE req.o2.k = "list" -> res.ret /\ res.val = req.o2
                        [] req.o2.k = "raise" ->
                               /\ ~res.ret
                               /\ res.err = RobinhoodError("Search failed: ",
                                                           req.o2.text)
                        [] OTHER -> res.ret /\ res.val = RList(<<>>)
            /\ req.o.k = "raise" => (res.ret \/ res.err.arg # req.o.text)

\* C3 witness: the exact lookup raised and the caller got the fuzzy
\* search's list
C3_Witness ==
    /\ last.tool = "search_symbols"
    /\ req.o.k = "raise"
    /\ Len(last.res.ext) = 2
    /\ last.res.ret
    /\ last.res.val = req.o2
    /\ req.o2.items # <<>>

IntervalError == RobinhoodError("Invalid interval. Must be one of: ", <<>>)
SpanError == RobinhoodError("Invalid span. Must be one of: ", <<>>)

\* C4 as stated: get_historicals with interval="invalid" raises "Invalid
\* interval" and with span="invalid" (and a valid interval) raises "Invalid
\* span", whatever the symbol, valid or not.
C4_AnySymbol ==
    last.tool = "get_historicals" =>
        /\ last.interval = "invalid" =>
               (~last.res.ret /\ last.res.err = IntervalError)
        /\ (last.span = "invalid" /\ last.interval \in valid_intervals) =>
               (~last.res.ret /\ last.res.err = SpanError)

\* C4 amended: for every symbol that is a non-empty string,
\* get_historicals with interval="invalid" raises "Invalid interval" and
\* with span="invalid" (and a valid interval) raises "Invalid span", before
\* any external call; for a symbol that is not a non-empty string it raises
\* "Symbol must be a non-empty string" whatever the interval and span.
C4_EnumValidation ==
    last.tool = "get_historicals" =>
        /\ (ValidString(last.sym) /\ last.interval = "invalid") =>
               /\ ~last.res.ret
               /\ last.res.err = IntervalError
               /\ last.res.ext = NoCall
        /\ (ValidString(last.sym) /\ last.span = "invalid"
                /\ last.interval \in valid_intervals) =>
               /\ ~last.res.ret
               /\ last.res.err = SpanError
               /\ last.res.ext = NoCall
        /\ ~ValidString(last.sym) =>
               /\ ~last.res.ret
               /\ last.res.err = SymbolError
               /\ last.res.ext = NoCall

\* C4 witness: a valid symbol with both enums invalid gives "Invalid interval"
C4_Witness ==
    /\ last.tool = "get_historicals"
    /\ ValidString(last.sym)
    /\ last.interval = "invalid"
    /\ last.span = "invalid"
    /\ last.res.err = IntervalError

\* C5 as stated: no accessor that takes a symbol, nor search_symbols, calls
\* the client with an empty symbol or query: an input that is not a
\* non-empty string after normalisation (a whitespace-only string included)
\* is rejected with RobinhoodError before the external call.
C5_NeverEmptySymbol ==
    last.tool \in SymbolTools \cup {"get_historicals", "search_symbols"} =>
        /\ \A i \in 1..Len(last.res.ext) : last.res.ext[i].arg # <<>>
        /\ (~IsStr(last.sym) \/ Strip(last.sym.s) = <<>>) =>
               /\ ~last.res.ret
               /\ last.res.err.kind = "RobinhoodError"
               /\ last.res.ext = NoCall

\* C7 as stated: a list-shaped accessor with valid arguments hands a list
\* on unchanged and returns [] for any non-list result, never raising.
C7_AnyNonList ==
    (last.tool \in ListTools /\ MadeExtCall(last) /\ req.o.k # "raise") =>
        /\ last.res.ret
        /\ last.res.val = IF IsList(req.o) THEN req.o ELSE RList(<<>>)

\* C7 amended: a list-shaped accessor with valid arguments hands a list on
\* unchanged and returns [] for any non-list result other than None, never
\* raising; for None it raises RobinhoodError.
C7_ListShaped ==
    (last.tool \in ListTools /\ MadeExtCall(last) /\ req.o.k # "raise") =>
        IF req.o.k = "none"
        THEN ~last.res.ret /\ last.res.err.kind = "RobinhoodError"
        ELSE /\ last.res.ret
             /\ last.res.val = IF IsList(req.o) THEN req.o ELSE RList(<<>>)

\* C7 witness: the watchlist call returned an object that is not a list
C7_Witness ==
    /\ last.tool = "get_watchlist"
    /\ req.o = ROther
    /\ last.res.ret
    /\ last.res.val = RList(<<>>)

\* C8: get_quote and get_fundamentals with a valid symbol return exactly
\* the first element of a non-empty list, and raise RobinhoodError "No quote
\* found" / "No fundamentals found" for an empty list or any other non-null
\* result.
C8_FirstElement ==
    (last.tool \in {"get_quote", "get_fundamentals"} /\ MadeExtCall(last)
         /\ ~BadOutcome(req.o)) =>
        IF IsList(req.o) /\ req.o.items # <<>>
        THEN last.res.ret /\ last.res.val = RElem(req.o.items[1])
        ELSE /\ ~last.res.ret
             /\ last.res.err =
                    RobinhoodError(IF last.tool = "get_quote"
                                   THEN "No quote found for symbol: "
                                   ELSE "No fundamentals found for symbol: ",
                                   last.res.ext[1].arg)

\* C8 witness: a quote was unwrapped from a list of several elements
C8_Witness ==
    /\ last.tool = "get_quote"
    /\ Len(req.o.items) >= 2
    /\ IsList(req.o)
    /\ last.res.ret

\* an external call that was made raised or returned None
SomeCallBad ==
    \/ Len(last.res.ext) >= 1 /\ BadOutcome(last.o1)
    \/ Len(last.res.ext) >= 2 /\ BadOutcome(last.o2)

\* C9 as stated: every accessor, search_symbols included, fails with
\* RobinhoodError and returns no value whenever an external call it made
\* raised or returned None.
C9_EveryAccessor ==
    (last.tool # "none" /\ SomeCallBad) =>
        (~last.res.ret /\ last.res.err.kind = "RobinhoodError")

\* C9 amended: every accessor other than search_symbols fails with
\* RobinhoodError, and no other kind, and returns no value whenever its
\* external call raised or returned None; search_symbols fails, with
\* RobinhoodError, exactly when its fuzzy search was called and raised (an
\* exception or None from the exact lookup leads to the fuzzy search, and
\* None from the fuzzy search gives []).
C9_ExternalFailure ==
    /\ (last.tool \notin {"none", "search_symbols"} /\ SomeCallBad) =>
           (~last.res.ret /\ last.res.err.kind = "RobinhoodError")
    /\ (last.tool = "search_symbols" /\ MadeExtCall(last)) =>
           /\ ~last.res.ret <=>
                  (Len(last.res.ext) = 2 /\ last.o2.k = "raise")
           /\ ~last.res.ret => last.res.err.kind = "RobinhoodError"

\* C9 witness: the portfolio call returned None and the accessor raised
C9_Witness ==
    /\ last.tool = "get_portfolio"
    /\ req.o = RNone
    /\ ~last.res.ret
    /\ last.res.err.kind = "RobinhoodError"

----------------------------------------------------------------------------
(* Properties of a symbol accessor called twice (SpecNorm) *)

\* the letter a character is a case of
LetterOf(c) ==
    CASE c \in {"a", "A"} -> "a"
      [] c \in {"b", "B"} -> "b"
      [] OTHER -> c

Spaces(n) == [i \in 1..n |-> " "]

\* c and d are the same string up to the case of the letters
SameLetters(c, d) ==
    /\ Len(c) = Len(d)
    /\ \A i \in 1..Len(c) : LetterOf(c[i]) = LetterOf(d[i])

\* s and t are mixed-case, whitespace-padded variants of one symbol
IsVariant(s, t) ==
    \E i, j \in 0..Len(s), k, l \in 0..Len(t) :
        /\ i + j <= Len(s)
        /\ k + l <= Len(t)
        /\ SubSeq(s, 1, i) = Spaces(i)
        /\ SubSeq(s, Len(s) - j + 1, Len(s)) = Spaces(j)
        /\ SubSeq(t, 1, k) = Spaces(k)
        /\ SubSeq(t, Len(t) - l + 1, Len(t)) = Spaces(l)
        /\ SameLetters(SubSeq(s, i + 1, Len(s) - j),
                       SubSeq(t, k + 1, Len(t) - l))

\* both calls of the accessor reached the external client
BothCalled == prev.tool # "none" /\ MadeExtCall(prev) /\ MadeExtCall(last)

\* C6: two calls of a symbol accessor with mixed-case or whitespace-padded
\* variants of one symbol pass the same symbol to the external call, and
\* normalisation is idempotent: a call with the symbol that an earlier call
\* passed on passes that symbol on unchanged.
C6_SameNormalizedSymbol ==
    BothCalled =>
        /\ IsVariant(prev.sym.s, last.sym.s) =>
               last.res.ext[1].arg = prev.res.ext[1].arg
        /\ last.sym.s = prev.res.ext[1].arg =>
               last.res.ext[1].arg = last.sym.s

\* C6 witness: two different variants, neither in normal form, gave the
\* same non-empty symbol
C6_Witness ==
    /\ BothCalled
    /\ IsVariant(prev.sym.s, last.sym.s)
    /\ prev.sym.s # last.sym.s
    /\ prev.sym.s # prev.res.ext[1].arg
    /\ last.sym.s # last.res.ext[1].arg
    /\ Len(last.sym.s) # Len(prev.sym.s)
    /\ last.res.ext[1].arg # <<>>
    /\ last.res.ext[1].arg = prev.res.ext[1].arg

----------------------------------------------------------------------------
(* Properties of auth.py called directly (SpecAuth) *)

\* the exception texts of LoginExcTexts that mention mfa or 2fa in any case
MfaTexts ==
    { <<"m", "f", "a">>, <<"M", "F", "A">>, <<"x", "M", "f", "a", "x">>,
      <<"2", "f", "a">>, <<"2", "F", "A">>, <<"x", "2", "F", "a">> }

TwoFactorError ==
    AuthenticationError(
        "2FA required but ROBINHOOD_TOTP_SECRET not provided or invalid", <<>>)

\* username and password can be resolved from the argument or the environment
Resolvable ==
    /\ TruthyStr(req.username) \/ TruthyStr(environ.ROBINHOOD_USERNAME)
    /\ TruthyStr(req.password) \/ TruthyStr(environ.ROBINHOOD_PASSWORD)

\* C10: login with resolvable username and password raises
\* AuthenticationError whenever rh.login raises or returns an empty or null
\* response: the two-factor message if the exception text contains "mfa" or
\* "2fa" in any case, "Login failed: <text>" otherwise, and a message
\* containing "empty result" for an empty or null response.  It returns a
\* result only when rh.login returned a non-empty response.
C10_LoginFailure ==
    (authLog.fn = "login" /\ Resolvable) =>
        LET r == authLog.res
            o == req.o
            called == Len(r.ext) = 1
        IN  /\ r.ret => (called /\ o.k = "dict" /\ o.items # <<>> /\ r.val = o)
            /\ (called /\ o.k = "raise") =>
                   /\ ~r.ret
                   /\ r.err = IF o.text \in MfaTexts THEN TwoFactorError
                              ELSE AuthenticationError("Login failed: ", o.text)
            /\ (called /\ o.k # "raise" /\ ~(o.k = "dict" /\ o.items # <<>>)) =>
                   /\ ~r.ret
                   /\ r.err.kind = "AuthenticationError"
                   /\ r.err.pre = <<"Login failed: ">>
                   /\ Contains(r.err.arg,
                               <<"e", "m", "p", "t", "y", " ",
                                 "r", "e", "s", "u", "l", "t">>)

\* C10 witness: rh.login raised with the text "MFA" and login raised the
\* two-factor error
C10_Witness ==
    /\ authLog.fn = "login"
    /\ Resolvable
    /\ Len(authLog.res.ext) = 1
    /\ req.o = RRaise(<<"M", "F", "A">>)
    /\ authLog.res.err = TwoFactorError

\* the TOTP secret login resolves from the argument or the environment
ResolvedSecret == Or(req.totp_secret, environ.ROBINHOOD_TOTP_SECRET)

\* the requests login made to rh.login
LoginRequests == authLog.res.ext

MissingCredentials ==
    AuthenticationError(
        "ROBINHOOD_USERNAME and ROBINHOOD_PASSWORD environment variables required",
        <<>>)

\* C11 as stated: login with resolvable username and password issues
\* exactly one rh.login request, with store_session set, whose mfa_code is
\* a 6-digit code exactly when a TOTP secret is resolvable and None when
\* none is.
C11_AnySecret ==
    (authLog.fn = "login" /\ Resolvable) =>
        /\ Len(LoginRequests) = 1
        /\ LoginRequests[1].fn = "rh.login"
        /\ LoginRequests[1].store_session
        /\ LoginRequests[1].mfa_code.none <=> ~TruthyStr(ResolvedSecret)
        /\ ~LoginRequests[1].mfa_code.none =>
               Len(LoginRequests[1].mfa_code.s) = 6

\* C11: login with resolvable username and password and a TOTP secret that
\* is absent or that pyotp can decode issues exactly one rh.login request,
\* with the resolved credentials and store_session set; its mfa_code is the
\* 6-digit code of get_totp_code exactly when a secret is resolvable from
\* the argument or the environment, and None when none is.  When the
\* resolved secret is malformed, login raises the AuthenticationError of
\* get_totp_code and issues no request.
C11_OneLoginRequest ==
    (authLog.fn = "login" /\ Resolvable) =>
        IF TruthyStr(ResolvedSecret) /\ ~Base32Valid(ResolvedSecret)
        THEN /\ LoginRequests = NoCall
             /\ ~authLog.res.ret
             /\ authLog.res.err =
                    AuthenticationError("Failed to generate TOTP code: ",
                                        TotpExcText)
        ELSE /\ Len(LoginRequests) = 1
             /\ LoginRequests[1].fn = "rh.login"
             /\ LoginRequests[1].username =
                    Or(req.username, environ.ROBINHOOD_USERNAME)
             /\ LoginRequests[1].password =
                    Or(req.password, environ.ROBINHOOD_PASSWORD)
             /\ LoginRequests[1].store_session
             /\ LoginRequests[1].mfa_code =
                    IF TruthyStr(ResolvedSecret) THEN SomeStr(req.code)
                    ELSE NoneStr
             /\ ~LoginRequests[1].mfa_code.none =>
                    Len(LoginRequests[1].mfa_code.s) = 6

\* C11 witness: the secret came from the environment only and its code was
\* passed in the one request
C11_Witness ==
    /\ authLog.fn = "login"
    /\ Resolvable
    /\ ~TruthyStr(req.totp_secret)
    /\ Base32Valid(environ.ROBINHOOD_TOTP_SECRET)
    /\ Len(LoginRequests) = 1
    /\ LoginRequests[1].mfa_code = SomeStr(req.code)

\* C12: whenever the username or the password can be resolved neither from
\* the argument nor from the environment, login raises the
\* AuthenticationError that names ROBINHOOD_USERNAME and ROBINHOOD_PASSWORD
\* and issues no rh.login request.
C12_MissingCredentials ==
    (authLog.fn = "login" /\ ~Resolvable) =>
        /\ ~authLog.res.ret
        /\ authLog.res.err = MissingCredentials
        /\ LoginRequests = NoCall

\* C12 witness: only the password was missing, and login raised without a
\* request
C12_Witness ==
    /\ authLog.fn = "login"
    /\ TruthyStr(req.username)
    /\ ~TruthyStr(req.password)
    /\ ~TruthyStr(environ.ROBINHOOD_PASSWORD)
    /\ authLog.res.err = MissingCredentials
    /\ LoginRequests = NoCall

\* C13: is_logged_in never raises; it returns False when the probe raises
\* or returns None and True exactly when the probe returns a value that is
\* not None.
C13_ProbeNeverRaises ==
    authLog.fn = "is_logged_in" =>
        /\ authLog.res.ret
        /\ authLog.res.err = NoErr
        /\ authLog.res.val = RBool(req.o.k \notin {"raise", "none"})

\* C13 witness: the probe returned an empty dict and is_logged_in was True
C13_Witness ==
    /\ authLog.fn = "is_logged_in"
    /\ req.o = RDict(<<>>)
    /\ authLog.res.val = RBool(TRUE)

\* C14: logout calls rh.logout exactly once and returns normally whether
\* rh.logout returns or raises.
C14_LogoutNeverFails ==
    authLog.fn = "logout" =>
        /\ authLog.res.ret
        /\ authLog.res.err = NoErr
        /\ Len(authLog.res.ext) = 1
        /\ authLog.res.ext[1].fn = "rh.logout"

\* C14 witness: rh.logout raised and logout returned
C14_Witness ==
    /\ authLog.fn = "logout"
    /\ req.o.k = "raise"
    /\ authLog.res.ret
    /\ Len(authLog.res.ext) = 1

====
